---- MODULE Spec2Model ----
(***************************************************************************)
(* A model of eutils._internal.queryservice.QueryService: the cached and   *)
(* throttled executor QueryService._query and what it calls.               *)
(*                                                                         *)
(* Time is counted in ticks of 1/30 s, so that both request intervals      *)
(* (1/3 s without an API key, 1/10 s with one) are whole numbers.          *)
(*                                                                         *)
(* A Python dict is a sequence of <<key, value>> pairs with distinct keys, *)
(* in insertion order.  A value is a record [t, v, id]: its type, its      *)
(* content and, for a str, the identity of the object (pickle memoises by  *)
(* identity); an int has id 0 and is never memoised.                       *)
(*                                                                         *)
(* A reply body is a sequence of tokens (tags and text), so that the       *)
(* substring probes of _query and the parse done by lxml are computed on   *)
(* the same text.                                                          *)
(***************************************************************************)
EXTENDS Integers, Sequences, FiniteSets, TLC

None == "None"

PyStr(s, o) == [t |-> "str", v |-> s, id |-> o]

PyInt(s) == [t |-> "int", v |-> s, id |-> 0]

----------------------------------------------------------------------------
(* Module constants, lines 42-45.                                          *)

url_base == "https://eutils.ncbi.nlm.nih.gov/entrez/eutils"

default_default_args ==
    << <<"retmode", PyStr("xml", 1)>>, <<"usehistory", PyStr("y", 1)>>,
       <<"restart", PyInt("0")>>, <<"retmax", PyInt("10000")>> >>

default_tool == "eutils"

default_email == "biocommons-dev@googlegroups.com"

----------------------------------------------------------------------------
(* dict operations                                                         *)

DictKeys(d) == {d[i][1] : i \in 1..Len(d)}

\* d[k] = v: an existing key keeps its position, a new key is appended.
DictSet(d, k, v) ==
    IF k \in DictKeys(d)
    THEN [i \in 1..Len(d) |-> IF d[i][1] = k THEN <<k, v>> ELSE d[i]]
    ELSE Append(d, <<k, v>>)

\* dict(list(a.items()) + list(b.items())): b's entries win on a collision.
RECURSIVE DictMerge(_, _)
DictMerge(a, b) ==
    IF b = <<>> THEN a
    ELSE DictMerge(DictSet(a, Head(b)[1], Head(b)[2]), Tail(b))

\* The content of a dict, as == compares it: identities and order dropped.
DictContent(d) == {<<d[i][1], d[i][2].t, d[i][2].v>> : i \in 1..Len(d)}

\* The keys the model uses, in ascending lexical order (str.__lt__).
KeyOrder ==
    <<"db", "email", "restart", "retmax", "retmode", "term", "tool",
      "usehistory">>

KeyRank(k) == CHOOSE i \in 1..Len(KeyOrder) : KeyOrder[i] = k

RemoveAt(s, i) == SubSeq(s, 1, i - 1) \o SubSeq(s, i + 1, Len(s))

\* sorted(d.items()): the keys are distinct, so the key alone orders.
RECURSIVE SortedItems(_)
SortedItems(d) ==
    IF d = <<>> THEN <<>>
    ELSE LET m == CHOOSE i \in 1..Len(d) :
                      \A j \in 1..Len(d) : KeyRank(d[i][1]) <= KeyRank(d[j][1])
         IN  <<d[m]>> \o SortedItems(RemoveAt(d, m))

----------------------------------------------------------------------------
(* The cache key, line 267.                                                *)

\* pickle.dumps of one value: a str that is the same object as the str of
\* an earlier item is written as a reference to it (the pickler's memo is
\* keyed by id()), any other str as its text, an int as its digits.
PickleValue(items, i) ==
    LET val == items[i][2]
        same == {j \in 1..(i - 1) : items[j][2] = val}
    IN  IF val.t = "str" /\ same # {}
        THEN <<"BINGET", items[CHOOSE j \in same : \A h \in same : j <= h][1]>>
        ELSE <<val.t, val.v>>

\* pickle.dumps((url, items))
PickleDumps(url, items) ==
    <<url>> \o [i \in 1..Len(items) |-> <<items[i][1], PickleValue(items, i)>>]

\* hashlib.md5(b).hexdigest(), taken to be free of collisions.
Md5Hexdigest(b) == <<"md5", b>>

CacheKey(url, defining_args) ==
    Md5Hexdigest(PickleDumps(url, SortedItems(defining_args)))

----------------------------------------------------------------------------
(* Reply bodies: r.text as a sequence of tokens.                           *)

MetaNoCache == "<meta content=\"no-cache\"/>"

H1Error == "<h1 class=\"error\">"

OpenTags == {"<r>", "<ERROR>", "<error>", H1Error}

CloseTags == {"</r>", "</ERROR>", "</error>", "</h1>"}

EmptyTags == {"<x/>", MetaNoCache}

\* The element name of a tag.
TagName(tok) ==
    CASE tok \in {"<r>", "</r>"} -> "r"
      [] tok \in {"<ERROR>", "</ERROR>"} -> "ERROR"
      [] tok \in {"<error>", "</error>"} -> "error"
      [] tok \in {H1Error, "</h1>"} -> "h1"
      [] tok = "<x/>" -> "x"
      [] tok = MetaNoCache -> "meta"
      [] OTHER -> None

IsText(tok) == tok \notin OpenTags \cup CloseTags \cup EmptyTags

\* needle in r.text, for a needle that is one token or part of one.
InText(needle, body) ==
    \E i \in 1..Len(body) :
        \/ body[i] = needle
        \/ needle = "no-cache" /\ body[i] = MetaNoCache

\* '<h1 class="error">Access Denied</h1>' in r.text
HasAccessDenied(body) ==
    \E i \in 1..(Len(body) - 2) :
        /\ body[i] = H1Error
        /\ body[i + 1] = "Access Denied"
        /\ body[i + 2] = "</h1>"

\* The stack of open elements before token i (the innermost last), or
\* <<"!">> once the text is not well formed up to there.
RECURSIVE OpenBefore(_, _)
OpenBefore(body, i) ==
    IF i = 1 THEN <<>>
    ELSE LET st == OpenBefore(body, i - 1)
             tok == body[i - 1]
         IN  IF st = <<"!">> THEN st
             ELSE IF tok \in OpenTags THEN
                      IF st = <<>> /\ i - 1 > 1 THEN <<"!">>
                      ELSE Append(st, TagName(tok))
             ELSE IF tok \in CloseTags THEN
                      IF st # <<>> /\ st[Len(st)] = TagName(tok)
                      THEN SubSeq(st, 1, Len(st) - 1)
                      ELSE <<"!">>
             ELSE IF st = <<>> THEN
                      \* text or an empty element outside the root element
                      IF tok \in EmptyTags /\ i - 1 = 1 /\ Len(body) = 1
                      THEN st ELSE <<"!">>
             ELSE st

\* lxml.etree.fromstring / lxml.etree.XML accept the text: one root
\* element, every tag closed in order, nothing outside the root.
Parses(body) == body # <<>> /\ OpenBefore(body, Len(body) + 1) = <<>>

Depth(body, i) == Len(OpenBefore(body, i))

\* xml.find("ERROR"): the first child of the root named ERROR, as the
\* index of its start tag; 0 for None.
FindERROR(body) ==
    LET hits == {i \in 1..Len(body) : body[i] = "<ERROR>" /\ Depth(body, i) = 1}
    IN  IF hits = {} THEN 0 ELSE CHOOSE i \in hits : \A j \in hits : i <= j

\* The index of the end tag of the element that starts at i.
EndOf(body, i) ==
    CHOOSE j \in (i + 1)..Len(body) :
        /\ Depth(body, j + 1) = Depth(body, i)
        /\ \A h \in (i + 1)..(j - 1) : Depth(body, h + 1) > Depth(body, i)

\* len(node): the number of child elements of the element starting at i.
NumChildren(body, i) ==
    Cardinality({j \in (i + 1)..(EndOf(body, i) - 1) :
                    /\ body[j] \in OpenTags \cup EmptyTags
                    /\ Depth(body, j) = Depth(body, i) + 1})

\* node.text: the text before the first child; None when there is none.
NodeText(body, i) == IF IsText(body[i + 1]) THEN body[i + 1] ELSE None

\* bool(node) of an lxml element: whether it has children (None is false).
Truthy(body, i) == i # 0 /\ NumChildren(body, i) > 0

\* xml.xpath("//meta/@content='no-cache'")
XPathMetaNoCache(body) == \E i \in 1..Len(body) : body[i] = MetaNoCache

----------------------------------------------------------------------------
(* Exceptions and the classification of a reply, lines 308-330.            *)

JsonWithError == "{\"error\":\"API rate limit exceeded\"}"

JsonNoError == "{}"

\* What a call gives its caller: exc is the class of the exception raised
\* ("none": the call returned value), inner the class of the exception an
\* EutilsNCBIError wraps, about the url an Access Denied message names.
Returned(v) ==
    [exc |-> "none", msg |-> None, inner |-> None, about |-> <<>>, value |-> v]

Raised(e, m) ==
    [exc |-> e, msg |-> m, inner |-> None, about |-> <<>>, value |-> <<>>]

\* EutilsRequestError is a subclass of Exception (eutils/_internal/
\* exceptions.py), as every exception class of the package is.
EutilsRequestErrorIsException == TRUE

\* try: ... except Exception as ex: raise EutilsNCBIError(
\*     "Error parsing response object from NCBI: {}".format(ex))
TryExceptException(o) ==
    IF o.exc = "none" THEN o
    ELSE IF o.exc = "EutilsRequestError" /\ ~EutilsRequestErrorIsException
    THEN o
    ELSE [exc |-> "EutilsNCBIError", msg |-> o.msg, inner |-> o.exc,
          about |-> <<>>, value |-> <<>>]

\* r.json()["error"], lines 311-312
JsonBranch(r) ==
    IF r.body \notin {<<JsonWithError>>, <<JsonNoError>>}
    THEN Raised("ValueError", None)
    ELSE IF r.body = <<JsonNoError>> THEN Raised("KeyError", "error")
    ELSE Raised("EutilsRequestError", "API rate limit exceeded")

\* The body of the try of lines 314-317.
NotOkTryBody(r) ==
    IF ~Parses(r.body) THEN Raised("XMLSyntaxError", None)
    ELSE LET errornode == FindERROR(r.body)
             errormsg == IF Truthy(r.body, errornode)
                         THEN NodeText(r.body, errornode)
                         ELSE "Unknown Error"
         IN  Raised("EutilsRequestError", errormsg)

\* The body of the try of lines 324-325.
EmbeddedTryBody(r) ==
    IF ~Parses(r.body) THEN Raised("XMLSyntaxError", None)
    ELSE LET node == FindERROR(r.body)
         IN  IF node = 0 THEN Raised("AttributeError", "text")
             ELSE Raised("EutilsRequestError", NodeText(r.body, node))

\* any(bad_word in r.text for bad_word in ["<error>", "<ERROR>"]), line 321
HasErrorMarker(body) == InText("<error>", body) \/ InText("<ERROR>", body)

\* Lines 308-330: the exception raised for reply r, or Returned(r.body)
\* when control reaches line 332.
Classify(r, url) ==
    IF ~r.ok THEN
        IF r.ctype = None THEN Raised("KeyError", "Content-Type")
        ELSE IF r.ctype = "application/json" THEN JsonBranch(r)
        ELSE TryExceptException(NotOkTryBody(r))
    ELSE IF HasErrorMarker(r.body)
    THEN TryExceptException(EmbeddedTryBody(r))
    ELSE IF HasAccessDenied(r.body)
    THEN [exc |-> "EutilsRequestError", msg |-> "Access Denied",
          inner |-> None, about |-> url, value |-> <<>>]
    ELSE Returned(r.body)

\* The kind of outcome, in the words of the design: the error classes of
\* the package, or Uncaught for any other exception.
Kind(o) ==
    CASE o.exc = "none" -> "Success"
      [] o.exc = "EutilsRequestError" /\ o.msg = "Access Denied" -> "AccessDenied"
      [] o.exc = "EutilsRequestError" /\ o.msg # "Access Denied" -> "RequestRejected"
      [] o.exc = "EutilsNCBIError" -> "MalformedResponse"
      [] o.exc = "TransportError" -> "TransportError"
      [] OTHER -> "Uncaught"

\* Every reply is taken to be cacheable.
CacheableAlways(body) == [exc |-> "none", yes |-> TRUE]

\* _cacheable(r.text), lines 251-255: "ok" with the answer, or the
\* exception lxml.etree.XML raises on text it cannot parse.
Cacheable(body) ==
    IF ~InText("no-cache", body) THEN [exc |-> "none", yes |-> TRUE]
    ELSE IF ~Parses(body) THEN [exc |-> "XMLSyntaxError", yes |-> FALSE]
    ELSE [exc |-> "none", yes |-> ~XPathMetaNoCache(body)]

----------------------------------------------------------------------------
(* The clients, QueryService.__init__, lines 80-130.                       *)

\* QueryService objects built on one cache path (has_cache) or on none.
ClientA == [tool |-> default_tool, email |-> default_email,
            api_key |-> None, has_cache |-> TRUE]

ClientB == [tool |-> "mytool", email |-> "me@example.org",
            api_key |-> "KEY", has_cache |-> TRUE]

ClientN == [tool |-> default_tool, email |-> default_email,
            api_key |-> None, has_cache |-> FALSE]

Clients == {ClientA, ClientB, ClientN}

\* self.default_args
DefaultArgs(c) == default_default_args

\* self._ident_args, line 121
IdentArgs(c) == << <<"tool", PyStr(c.tool, 1)>>, <<"email", PyStr(c.email, 1)>> >>

\* requests_per_second, lines 109-115
RequestsPerSecond(c) == IF c.api_key = None THEN 3 ELSE 10

\* self.request_interval = 1.0 / requests_per_second, in ticks of 1/30 s
RequestInterval(c) == 30 \div RequestsPerSecond(c)

----------------------------------------------------------------------------
(* The inputs of a call.                                                   *)

Paths == {"/efetch.fcgi", "/einfo.fcgi"}

Gene == PyStr("gene", 1)

\* One content in its two insertion orders; "retmode" overrides a default.
ArgChoices ==
    { << <<"db", Gene>>, <<"retmode", PyStr("json", 1)>> >>,
      << <<"retmode", PyStr("json", 1)>>, <<"db", Gene>> >> }

BodyPlain == <<"<r>", "</r>">>

BodyToken == <<"<r>", "no-cache", "</r>">>

BodyMeta == <<"<r>", MetaNoCache, "</r>">>

BodyError == <<"<r>", "<ERROR>", "bad database", "</ERROR>", "</r>">>

BodyErrorNested ==
    <<"<r>", "<ERROR>", "bad database", "<x/>", "</ERROR>", "</r>">>

BodyErrorLower == <<"<r>", "<error>", "bad database", "</error>", "</r>">>

BodyErrorRoot == <<"<ERROR>", "bad database", "</ERROR>">>

BodyErrorDeep ==
    <<"<r>", "<error>", "<ERROR>", "bad database", "</ERROR>", "</error>", "</r>">>

BodyErrorCut == <<"<r>", "<ERROR>", "bad database">>

BodyDenied == <<"<r>", H1Error, "Access Denied", "</h1>", "</r>">>

BodyJunk == <<"junk">>

BodyJunkToken == <<"no-cache">>

BodyEmpty == <<"<r>", "<x/>", "</r>">>

Bodies ==
    {BodyPlain, BodyToken, BodyMeta, BodyError, BodyErrorNested,
     BodyErrorLower, BodyErrorRoot, BodyErrorDeep, BodyErrorCut, BodyDenied,
     BodyJunk, BodyJunkToken, BodyEmpty, <<JsonWithError>>, <<JsonNoError>>}

Reply(ok, ctype, body) == [ok |-> ok, ctype |-> ctype, body |-> body]

\* Every reply the classification is checked on.
AllReplies ==
    {Reply(ok, ct, b) : ok \in BOOLEAN,
                        ct \in {"application/json", "text/xml", None},
                        b \in Bodies}

\* The replies the Transport gives in the runs of the executor.
Replies ==
    {Reply(TRUE, "text/xml", BodyPlain), Reply(TRUE, "text/xml", BodyToken),
     Reply(TRUE, "text/xml", BodyMeta), Reply(TRUE, "text/xml", BodyError),
     Reply(TRUE, "text/xml", BodyDenied), Reply(TRUE, "text/xml", BodyJunkToken),
     Reply(FALSE, "text/xml", BodyError), Reply(FALSE, "text/xml", BodyJunk),
     Reply(FALSE, "application/json", <<JsonWithError>>)}

----------------------------------------------------------------------------
(* QueryService._query, lines 236-340.                                     *)

VARIABLES
    clock,               \* time.monotonic()
    last_request_clock,  \* self._last_request_clock of each client
    cache,               \* the SQLiteCache the clients share: key -> value
    ctx,                 \* each execution context's call of _query
    completed_at,        \* when requests.post last returned, per client
    first_put,           \* the value first stored under each key
    probe                \* the input and result of a function applied alone

vars ==
    <<clock, last_request_clock, cache, ctx, completed_at, first_put, probe>>

MaxClock == 12

\* No reply yet.
NoReply == [ok |-> TRUE, ctype |-> None, body |-> <<>>]

Idle ==
    [pc |-> "idle", client |-> ClientA, path |-> None, args |-> <<>>,
     skip_cache |-> FALSE, skip_sleep |-> FALSE, wake |-> 0, posted |-> -1,
     sent |-> FALSE, r |-> NoReply, ret |-> Returned(<<>>)]

\* url, line 262
Url(path) == <<url_base, path>>

\* url, lines 288-289
PostUrl(c, path) ==
    IF c.api_key # None THEN Url(path) \o <<"?api_key=", c.api_key>>
    ELSE Url(path)

\* defining_args, line 265
DefiningArgs(c, args) == DictMerge(DefaultArgs(c), args)

\* full_args, line 266
FullArgs(c, args) == DictMerge(IdentArgs(c), DefiningArgs(c, args))

\* A key computed from full_args, the identifying args included.
QueryCacheKeyWithIdent(c, path, args) == CacheKey(Url(path), FullArgs(c, args))

\* cache_key, line 267
QueryCacheKey(c, path, args) == CacheKey(Url(path), DefiningArgs(c, args))

KeyOf(x) == QueryCacheKey(x.client, x.path, x.args)

\* A sleep time that forgets the last request.
SleepTimeNoLast(c, now, last) == RequestInterval(c) - now

\* A sleep time that grows with the time since the last request.
SleepTimeGrows(c, now, last) == RequestInterval(c) + (now - last)

\* sleep_time, line 295
SleepTime(c, now, last) == RequestInterval(c) - (now - last)

\* The cache read with skip_cache taken the wrong way round.
CacheHitInverted(c, key, skip_cache) ==
    skip_cache /\ c.has_cache /\ key \in DOMAIN cache

\* Lines 273-286: whether the call returns self._cache[cache_key].
CacheHit(c, key, skip_cache) ==
    ~skip_cache /\ c.has_cache /\ key \in DOMAIN cache

\* A call that records the time of a cache hit as if it were a request.
QueryHitStamps(t, c, path, args, skip_cache, skip_sleep) ==
    LET key == QueryCacheKey(c, path, args)
        call == [Idle EXCEPT !.client = c, !.path = path, !.args = args,
                             !.skip_cache = skip_cache,
                             !.skip_sleep = skip_sleep]
        sleep_time == SleepTime(c, clock, last_request_clock[c])
    IN  /\ ctx[t].pc = "idle"
        /\ ctx' = [ctx EXCEPT ![t] =
               IF CacheHit(c, key, skip_cache)
               THEN [call EXCEPT !.pc = "done", !.ret = Returned(cache[key])]
               ELSE IF ~skip_sleep /\ sleep_time > 0
               THEN [call EXCEPT !.pc = "sleep", !.wake = clock + sleep_time]
               ELSE [call EXCEPT !.pc = "post"]]
        /\ last_request_clock' =
               IF CacheHit(c, key, skip_cache)
               THEN [last_request_clock EXCEPT ![c] = clock]
               ELSE last_request_clock
        /\ UNCHANGED <<clock, cache, completed_at, first_put, probe>>

\* Lines 249-298: the key, the read of the cache, the throttle's decision.
Query(t, c, path, args, skip_cache, skip_sleep) ==
    LET key == QueryCacheKey(c, path, args)
        call == [Idle EXCEPT !.client = c, !.path = path, !.args = args,
                             !.skip_cache = skip_cache,
                             !.skip_sleep = skip_sleep]
        sleep_time == SleepTime(c, clock, last_request_clock[c])
    IN  /\ ctx[t].pc = "idle"
        /\ ctx' = [ctx EXCEPT ![t] =
               IF CacheHit(c, key, skip_cache)
               THEN [call EXCEPT !.pc = "done", !.ret = Returned(cache[key])]
               ELSE IF ~skip_sleep /\ sleep_time > 0
               THEN [call EXCEPT !.pc = "sleep", !.wake = clock + sleep_time]
               ELSE [call EXCEPT !.pc = "post"]]
        /\ UNCHANGED <<clock, last_request_clock, cache, completed_at, first_put, probe>>

\* time.sleep(sleep_time) returns, line 298: no earlier than asked.
Wake(t) ==
    /\ ctx[t].pc = "sleep"
    /\ clock >= ctx[t].wake
    /\ ctx' = [ctx EXCEPT ![t].pc = "post"]
    /\ UNCHANGED <<clock, last_request_clock, cache, completed_at, first_put, probe>>

\* requests.post(url, full_args) is called, line 300.
Post(t) ==
    /\ ctx[t].pc = "post"
    /\ ctx' = [ctx EXCEPT ![t].pc = "wait", ![t].posted = clock,
                          ![t].sent = TRUE]
    /\ UNCHANGED <<clock, last_request_clock, cache, completed_at, first_put, probe>>

\* A store that a call with skip_cache true leaves out.
StoreUnlessSkipped(x, r) ==
    LET cb == Cacheable(r.body)
    IN  IF ~x.client.has_cache THEN [ret |-> Returned(r.body), put |-> FALSE]
        ELSE IF cb.exc # "none" THEN [ret |-> Raised(cb.exc, None), put |-> FALSE]
        ELSE [ret |-> Returned(r.body), put |-> cb.yes /\ ~x.skip_cache]

\* Lines 332-340 for a reply that line 330 let through.
StoreAndReturn(x, r) ==
    LET c == x.client
        cb == Cacheable(r.body)
    IN  IF ~c.has_cache THEN [ret |-> Returned(r.body), put |-> FALSE]
        ELSE IF cb.exc # "none" THEN [ret |-> Raised(cb.exc, None), put |-> FALSE]
        ELSE [ret |-> Returned(r.body), put |-> cb.yes]

\* A reply is stored before it is classified.
FinishCachesErrors(x, r) ==
    LET o == Classify(r, PostUrl(x.client, x.path))
    IN  IF o.exc # "none" THEN [ret |-> o, put |-> x.client.has_cache]
        ELSE StoreAndReturn(x, r)

\* Lines 308-340: what the call does with reply r.
Finish(x, r) ==
    LET o == Classify(r, PostUrl(x.client, x.path))
    IN  IF o.exc # "none" THEN [ret |-> o, put |-> FALSE]
        ELSE StoreAndReturn(x, r)

\* A put that drops every other entry.
CachePutEvicts(store, key, value) == [k \in {key} |-> value]

\* A put that writes the value under every key the store has.
CachePutAll(store, key, value) == [k \in DOMAIN store \cup {key} |-> value]

\* self._cache[cache_key] = r.content
CachePut(store, key, value) ==
    [k \in DOMAIN store \cup {key} |-> IF k = key THEN value ELSE store[k]]

\* A reply whose time is recorded only when the call succeeds.
RespondStampsSuccess(t, r) ==
    LET x == ctx[t]
        f == Finish(x, r)
    IN  /\ x.pc = "wait"
        /\ last_request_clock' =
               IF f.ret.exc = "none"
               THEN [last_request_clock EXCEPT ![x.client] = clock]
               ELSE last_request_clock
        /\ completed_at' = [completed_at EXCEPT ![x.client] = clock]
        /\ cache' = IF f.put THEN CachePut(cache, KeyOf(x), r.body) ELSE cache
        /\ first_put' = IF f.put /\ KeyOf(x) \notin DOMAIN first_put
                        THEN CachePut(first_put, KeyOf(x), r.body)
                        ELSE first_put
        /\ ctx' = [ctx EXCEPT ![t].pc = "done", ![t].posted = -1,
                              ![t].r = r, ![t].ret = f.ret]
        /\ UNCHANGED <<clock, probe>>

\* requests.post returns r, lines 300-340.
Respond(t, r) ==
    LET x == ctx[t]
        f == Finish(x, r)
    IN  /\ x.pc = "wait"
        /\ last_request_clock' = [last_request_clock EXCEPT ![x.client] = clock]
        /\ completed_at' = [completed_at EXCEPT ![x.client] = clock]
        /\ cache' = IF f.put THEN CachePut(cache, KeyOf(x), r.body) ELSE cache
        /\ first_put' = IF f.put /\ KeyOf(x) \notin DOMAIN first_put
                        THEN CachePut(first_put, KeyOf(x), r.body)
                        ELSE first_put
        /\ ctx' = [ctx EXCEPT ![t].pc = "done", ![t].posted = -1,
                              ![t].r = r, ![t].ret = f.ret]
        /\ UNCHANGED <<clock, probe>>

\* A failed request whose time is recorded all the same.
TransportFailsStamps(t) ==
    /\ ctx[t].pc = "wait"
    /\ ctx' = [ctx EXCEPT ![t].pc = "done", ![t].posted = -1,
                          ![t].ret = Raised("TransportError", None)]
    /\ last_request_clock' = [last_request_clock EXCEPT ![ctx[t].client] = clock]
    /\ UNCHANGED <<clock, cache, completed_at, first_put, probe>>

\* requests.post raises (no reply), line 300: the exception leaves _query.
TransportFails(t) ==
    /\ ctx[t].pc = "wait"
    /\ ctx' = [ctx EXCEPT ![t].pc = "done", ![t].posted = -1,
                          ![t].ret = Raised("TransportError", None)]
    /\ UNCHANGED <<clock, last_request_clock, cache, completed_at, first_put, probe>>

\* The caller takes the result; the context is free for its next call.
Return(t) ==
    /\ ctx[t].pc = "done"
    /\ ctx' = [ctx EXCEPT ![t] = Idle]
    /\ UNCHANGED <<clock, last_request_clock, cache, completed_at, first_put, probe>>

\* Time passes.
Tick ==
    /\ clock < MaxClock
    /\ clock' = clock + 1
    /\ UNCHANGED <<last_request_clock, cache, ctx, completed_at, first_put, probe>>

NoProbe == [fn |-> "none"]

EmptyCache == [k \in {} |-> <<>>]

\* Freshly built clients on an empty cache and n execution contexts.
Constructed(n) ==
    /\ last_request_clock = [c \in Clients |-> 0]
    /\ cache = EmptyCache
    /\ ctx = [t \in 1..n |-> Idle]
    /\ completed_at = [c \in Clients |-> -1]
    /\ first_put = EmptyCache

\* The monotonic clock at one of the readings in clocks.
InitWith(clocks, n) ==
    /\ clock \in clocks
    /\ Constructed(n)
    /\ probe = NoProbe

\* The steps of a call once it is made.
Proceed(replies) ==
    \/ \E t \in DOMAIN ctx : Wake(t)
    \/ \E t \in DOMAIN ctx : Post(t)
    \/ \E t \in DOMAIN ctx, r \in replies : Respond(t, r)
    \/ \E t \in DOMAIN ctx : TransportFails(t)
    \/ \E t \in DOMAIN ctx : Return(t)
    \/ Tick

----------------------------------------------------------------------------
(* Spec: one execution context, two clients that share the cache.          *)

\* The clock reads three ticks short of the horizon when the clients are
\* built: late enough for a first call that does not sleep (ClientB), early
\* enough for one that does (ClientA) and for a second call to wake.
Init == InitWith({MaxClock - 3}, 1)

Next ==
    \/ \E c \in {ClientA, ClientB}, path \in Paths, args \in ArgChoices,
          skip_cache \in BOOLEAN, skip_sleep \in BOOLEAN :
           Query(1, c, path, args, skip_cache, skip_sleep)
    \/ Proceed(Replies)

Spec == Init /\ [][Next]_vars

----------------------------------------------------------------------------
(* SpecThrottle: one execution context, the clock at any reading, one      *)
(* query, a client without an API key and one with.                        *)

OneArgs == << <<"db", Gene>> >>

ThrottleReplies ==
    {Reply(TRUE, "text/xml", BodyPlain), Reply(FALSE, "text/xml", BodyError)}

InitThrottle == InitWith(0..MaxClock, 1)

NextThrottle ==
    \/ \E c \in {ClientN, ClientB}, skip_cache \in BOOLEAN, skip_sleep \in BOOLEAN :
           Query(1, c, "/efetch.fcgi", OneArgs, skip_cache, skip_sleep)
    \/ Proceed(ThrottleReplies)

SpecThrottle == InitThrottle /\ [][NextThrottle]_vars

----------------------------------------------------------------------------
(* SpecConc: two execution contexts (threads) that share one client.       *)

InitConc == InitWith(0..MaxClock, 2)

NextConc ==
    \/ \E t \in DOMAIN ctx, skip_cache \in BOOLEAN, skip_sleep \in BOOLEAN :
           Query(t, ClientB, "/efetch.fcgi", OneArgs, skip_cache, skip_sleep)
    \/ Proceed({Reply(TRUE, "text/xml", BodyPlain)})

SpecConc == InitConc /\ [][NextConc]_vars

----------------------------------------------------------------------------
(* SpecEndpoints: the public endpoints, which fix path and skip_cache.     *)

\* An einfo that leaves skip_cache at its default.
EinfoReadsCache(t, c, args) == Query(t, c, "/einfo.fcgi", args, FALSE, FALSE)

\* einfo, lines 145-171: self._query("/einfo.fcgi", args, skip_cache=True)
Einfo(t, c, args) == Query(t, c, "/einfo.fcgi", args, TRUE, FALSE)

\* efetch, lines 133-143: self._query("/efetch.fcgi", args)
Efetch(t, c, args) == Query(t, c, "/efetch.fcgi", args, FALSE, FALSE)

EndpointReplies ==
    {Reply(TRUE, "text/xml", BodyPlain), Reply(TRUE, "text/xml", BodyToken),
     Reply(TRUE, "text/xml", BodyMeta), Reply(FALSE, "text/xml", BodyError)}

InitEndpoints == InitWith({MaxClock - 3}, 1)

NextEndpoints ==
    \/ \E c \in {ClientA, ClientB}, args \in ArgChoices : Einfo(1, c, args)
    \/ \E c \in {ClientA, ClientB}, args \in ArgChoices : Efetch(1, c, args)
    \/ Proceed(EndpointReplies)

SpecEndpoints == InitEndpoints /\ [][NextEndpoints]_vars

----------------------------------------------------------------------------
(* SpecKey: the cache key alone, on two mappings and two clients.          *)

KeyValues == {PyStr("gene", 1), PyStr("gene", 2), PyStr("vegf", 1), PyInt("7157")}

\* The dicts of at most two entries over the keys "db" and "term".
Mappings ==
    {<<>>}
    \cup {<< <<k, v>> >> : k \in {"db", "term"}, v \in KeyValues}
    \cup {<< <<ks[1], v1>>, <<ks[2], v2>> >> :
              ks \in {<<"db", "term">>, <<"term", "db">>},
              v1 \in KeyValues, v2 \in KeyValues}

InitKey ==
    /\ clock = 0
    /\ Constructed(1)
    /\ \E path \in Paths, m1 \in Mappings, m2 \in Mappings :
           probe = [fn |-> "key", path |-> path, m1 |-> m1, m2 |-> m2,
                    applied |-> FALSE, k1 |-> <<>>, k2 |-> <<>>]

\* cache_key of the two mappings, as line 267 computes it.
ApplyKey ==
    /\ probe.fn = "key"
    /\ ~probe.applied
    /\ probe' = [probe EXCEPT !.applied = TRUE,
                              !.k1 = CacheKey(Url(probe.path), probe.m1),
                              !.k2 = CacheKey(Url(probe.path), probe.m2)]
    /\ UNCHANGED <<clock, last_request_clock, cache, ctx, completed_at, first_put>>

SpecKey == InitKey /\ [][ApplyKey]_vars

----------------------------------------------------------------------------
(* SpecClassify: the classification alone, on every reply.                 *)

InitClassify ==
    /\ clock = 0
    /\ Constructed(1)
    /\ \E r \in AllReplies, c \in {ClientA, ClientB} :
           probe = [fn |-> "classify", r |-> r, client |-> c,
                    applied |-> FALSE, out |-> Returned(<<>>)]

\* Lines 308-330 on the reply.
ApplyClassify ==
    /\ probe.fn = "classify"
    /\ ~probe.applied
    /\ probe' = [probe EXCEPT !.applied = TRUE,
                     !.out = Classify(probe.r, PostUrl(probe.client, "/efetch.fcgi"))]
    /\ UNCHANGED <<clock, last_request_clock, cache, ctx, completed_at, first_put>>

SpecClassify == InitClassify /\ [][ApplyClassify]_vars

----------------------------------------------------------------------------
(* The claims.                                                             *)

\* t's call begins in this step.
Begins(t) == ctx[t].pc = "idle" /\ ctx'[t].pc # "idle"

\* t's call receives the Transport's reply in this step.
Replied(t) == ctx[t].pc = "wait" /\ ctx'[t].pc = "done" /\ ctx'[t].r # NoReply

\* A finished call that returned a stored value without a request.
IsHit(x) == x.pc = "done" /\ ~x.sent /\ x.ret.exc = "none"

\* C1: a call with skip_cache false on a client with a cache, made while
\* the cache holds an entry under the call's key, ends at once with exactly
\* the stored value and without a request to the Transport.
C1_CacheShortCircuit ==
    [][\A t \in DOMAIN ctx :
         LET x == ctx'[t]
         IN  (Begins(t) /\ ~x.skip_cache /\ x.client.has_cache
                 /\ KeyOf(x) \in DOMAIN cache)
             => (x.pc = "done" /\ ~x.sent /\ x.ret = Returned(cache[KeyOf(x)])
                 /\ cache' = cache)]_vars

C1_Witness ==
    \E t \in DOMAIN ctx :
        /\ IsHit(ctx[t])
        /\ ~ctx[t].skip_cache
        /\ KeyOf(ctx[t]) \in DOMAIN cache
        /\ ctx[t].ret.value = cache[KeyOf(ctx[t])]

\* C2: two calls of one client, both with skip_sleep false and both in
\* flight after a miss, were sent at least the request interval apart.
C2_SerializedThrottle ==
    \A t \in DOMAIN ctx, u \in DOMAIN ctx :
        (/\ t # u
         /\ ctx[t].pc = "wait" /\ ctx[u].pc = "wait"
         /\ ctx[t].client = ctx[u].client
         /\ ~ctx[t].skip_sleep /\ ~ctx[u].skip_sleep
         /\ ctx[t].posted <= ctx[u].posted)
        => ctx[u].posted - ctx[t].posted >= RequestInterval(ctx[t].client)

C4_NoErrorCached ==
    [][cache' # cache
         => \E t \in DOMAIN ctx :
                /\ Replied(t)
                /\ Kind(Classify(ctx'[t].r, PostUrl(ctx[t].client, ctx[t].path)))
                      = "Success"
                /\ Kind(ctx'[t].ret) = "Success"]_vars

C4_Witness ==
    \E t \in DOMAIN ctx :
        /\ ctx[t].pc = "done"
        /\ ctx[t].sent
        /\ Kind(ctx[t].ret) \in {"RequestRejected", "MalformedResponse", "AccessDenied"}
        /\ ctx[t].client.has_cache
        /\ KeyOf(ctx[t]) \notin DOMAIN cache

\* C5: a reply with ok status whose body holds an <error> or <ERROR>
\* marker and parses is RequestRejected with the text of the ERROR element;
\* MalformedResponse comes only of a body that does not parse.
C5_EmbeddedError ==
    (probe.fn = "classify" /\ probe.applied /\ probe.r.ok
        /\ HasErrorMarker(probe.r.body))
    => /\ Parses(probe.r.body) => Kind(probe.out) = "RequestRejected"
       /\ Kind(probe.out) = "MalformedResponse" => ~Parses(probe.r.body)

\* C6: a reply with failing status, a content type other than JSON and a
\* body that parses is RequestRejected, its message the text of the body's
\* ERROR element, or "Unknown Error" when it has none.
C6_RejectedQuery ==
    (probe.fn = "classify" /\ probe.applied /\ ~probe.r.ok
        /\ probe.r.ctype = "text/xml" /\ Parses(probe.r.body))
    => /\ Kind(probe.out) = "RequestRejected"
       /\ probe.out.msg = IF FindERROR(probe.r.body) = 0 THEN "Unknown Error"
                          ELSE NodeText(probe.r.body, FindERROR(probe.r.body))

\* C7: on a client with a cache, a reply classified as success whose body
\* has a meta element with content "no-cache" is returned and not stored:
\* the cache is unchanged.
C7_NoCacheNotStored ==
    [][\A t \in DOMAIN ctx :
         LET x == ctx'[t]
         IN  (/\ Replied(t)
              /\ x.client.has_cache
              /\ Kind(Classify(x.r, PostUrl(x.client, x.path))) = "Success"
              /\ Parses(x.r.body) /\ XPathMetaNoCache(x.r.body))
             => (x.ret = Returned(x.r.body) /\ cache' = cache)]_vars

C7_Witness ==
    \E t \in DOMAIN ctx :
        /\ ctx[t].pc = "done"
        /\ ctx[t].client.has_cache
        /\ XPathMetaNoCache(ctx[t].r.body)
        /\ ctx[t].ret = Returned(ctx[t].r.body)
        /\ KeyOf(ctx[t]) \notin DOMAIN cache

\* C8 (as claimed): a call with skip_cache false that finds an entry under
\* its key returns the value that the first fetch stored under that key.
C8_ReturnsFirstPayload ==
    \A t \in DOMAIN ctx :
        (IsHit(ctx[t]) /\ KeyOf(ctx[t]) \in DOMAIN first_put)
        => ctx[t].ret.value = first_put[KeyOf(ctx[t])]

\* C8 (amended): an entry is never removed; it changes only when a call
\* with the same key receives a cacheable success, to the value that call
\* returns; and a call with skip_cache false that begins while its key has
\* an entry returns the entry's value of that moment without a request.
C8_FetchThenHit ==
    [][\A k \in DOMAIN cache :
         /\ k \in DOMAIN cache'
         /\ cache'[k] # cache[k]
               => \E t \in DOMAIN ctx :
                      /\ Replied(t)
                      /\ KeyOf(ctx[t]) = k
                      /\ ctx'[t].ret = Returned(cache'[k])
         /\ \A t \in DOMAIN ctx :
                (Begins(t) /\ ~ctx'[t].skip_cache /\ ctx'[t].client.has_cache
                    /\ KeyOf(ctx'[t]) = k)
                => (IsHit(ctx'[t]) /\ ctx'[t].ret.value = cache[k])]_vars

C8_Witness ==
    \E t \in DOMAIN ctx :
        /\ IsHit(ctx[t])
        /\ KeyOf(ctx[t]) \in DOMAIN first_put
        /\ ctx[t].ret.value = cache[KeyOf(ctx[t])]
        /\ ctx[t].ret.value # first_put[KeyOf(ctx[t])]

\* C9: two mappings of the same content give the same cache key for the
\* same url, whatever their insertion order.
C9_KeyDeterminism ==
    (probe.fn = "key" /\ probe.applied
        /\ DictContent(probe.m1) = DictContent(probe.m2))
    => probe.k1 = probe.k2

\* Clients that differ in tool, email and api_key only.
SameButIdentity(c1, c2) ==
    c1.has_cache = c2.has_cache /\ DefaultArgs(c1) = DefaultArgs(c2)

\* C10: a call computes the key that any client differing from its own in
\* the identity fields only computes for the same path and args, so if the
\* cache holds an entry under that client's key the call returns it.
C10_IdentityNotInKey ==
    [][\A t \in DOMAIN ctx, c2 \in Clients :
         LET x == ctx'[t]
             k2 == QueryCacheKey(c2, x.path, x.args)
         IN  (Begins(t) /\ x.client.has_cache /\ SameButIdentity(x.client, c2))
             => /\ KeyOf(x) = k2
                /\ (~x.skip_cache /\ k2 \in DOMAIN cache)
                      => (IsHit(x) /\ x.ret.value = cache[k2])]_vars

C10_Witness ==
    \E t \in DOMAIN ctx :
        /\ IsHit(ctx[t])
        /\ ~ctx[t].skip_cache
        /\ completed_at[ctx[t].client] = -1
        /\ \E c2 \in Clients \ {ctx[t].client} :
               /\ completed_at[c2] >= 0
               /\ SameButIdentity(ctx[t].client, c2)
               /\ ctx[t].ret.value = cache[QueryCacheKey(c2, ctx[t].path, ctx[t].args)]

\* C11: under the public endpoints every call of einfo goes on to the
\* Transport, whatever the cache holds under its key, and what it returns
\* is the body of the reply it received, never a value read from the cache.
C11_EinfoSkipsCacheRead ==
    [][\A t \in DOMAIN ctx :
         LET x == ctx'[t]
         IN  /\ (Begins(t) /\ x.path = "/einfo.fcgi")
                => (x.skip_cache /\ x.pc \in {"sleep", "post"})
             /\ (x.pc = "done" /\ x.path = "/einfo.fcgi" /\ x.ret.exc = "none")
                => (x.sent /\ x.ret.value = x.r.body)]_vars

C11_Witness ==
    \E t \in DOMAIN ctx :
        /\ ctx[t].pc = "done"
        /\ ctx[t].path = "/einfo.fcgi"
        /\ ctx[t].sent
        /\ ctx[t].ret.exc = "none"
        /\ KeyOf(ctx[t]) \in DOMAIN cache
        /\ cache[KeyOf(ctx[t])] # ctx[t].ret.value

\* C12: on a client with a cache, a call with skip_cache true whose reply is
\* a cacheable success stores the reply's body under its key, in place of
\* any earlier entry, and returns it, leaving the other entries alone; a
\* call of the same key with skip_cache false then returns what the cache
\* holds, which is that body.
C12_SkipCacheStillWrites ==
    [][/\ \A t \in DOMAIN ctx :
         LET x == ctx'[t]
             k == KeyOf(x)
         IN  (/\ Replied(t)
              /\ x.skip_cache
              /\ x.client.has_cache
              /\ Kind(Classify(x.r, PostUrl(x.client, x.path))) = "Success"
              /\ Cacheable(x.r.body) = [exc |-> "none", yes |-> TRUE])
             => /\ x.ret = Returned(x.r.body)
                /\ k \in DOMAIN cache'
                /\ cache'[k] = x.r.body
                /\ \A j \in DOMAIN cache \ {k} :
                       j \in DOMAIN cache' /\ cache'[j] = cache[j]
       /\ \A t \in DOMAIN ctx :
            LET x == ctx'[t]
            IN  (Begins(t) /\ ~x.skip_cache /\ x.client.has_cache
                    /\ KeyOf(x) \in DOMAIN cache)
                => x.ret = Returned(cache[KeyOf(x)])]_vars

C12_Witness ==
    \E t \in DOMAIN ctx :
        /\ ctx[t].pc = "done"
        /\ ctx[t].skip_cache
        /\ ctx[t].sent
        /\ ctx[t].ret = Returned(ctx[t].r.body)
        /\ KeyOf(ctx[t]) \in DOMAIN cache
        /\ cache[KeyOf(ctx[t])] = ctx[t].r.body
        /\ first_put[KeyOf(ctx[t])] # ctx[t].r.body

\* C13: a call that returns a stored value ends in the step in which it
\* begins, without sleeping, and leaves every client's last request clock
\* as it was; the last request clock of a client changes only in the step
\* in which a request of that client to the Transport returns.
C13_HitLeavesThrottle ==
    [][/\ \A t \in DOMAIN ctx :
            (Begins(t) /\ CacheHit(ctx'[t].client, KeyOf(ctx'[t]), ctx'[t].skip_cache))
            => /\ IsHit(ctx'[t])
               /\ ctx'[t].wake = 0
               /\ last_request_clock' = last_request_clock
       /\ \A c \in Clients :
            last_request_clock'[c] # last_request_clock[c]
            => \E t \in DOMAIN ctx :
                   /\ ctx[t].client = c
                   /\ ctx[t].sent
                   /\ Replied(t)]_vars

C13_Witness ==
    \E t \in DOMAIN ctx :
        /\ IsHit(ctx[t])
        /\ completed_at[ctx[t].client] >= 0
        /\ last_request_clock[ctx[t].client] = completed_at[ctx[t].client]
        /\ last_request_clock[ctx[t].client] < clock

\* C14: a call made with skip_sleep true that sends a request leaves its
\* client's last request clock, when the reply arrives, at the value it had
\* before.
C14_SkipSleepLeavesClock ==
    [][\A t \in DOMAIN ctx :
         (Replied(t) /\ ctx[t].skip_sleep)
         => last_request_clock'[ctx[t].client]
               = last_request_clock[ctx[t].client]]_vars

\* t's call hands its request to the Transport in this step.
Sends(t) == ctx[t].pc = "post" /\ ctx'[t].pc = "wait"

\* C15: with one execution context, when a request returns a reply the
\* client's last request clock becomes the time of that return, whatever
\* the reply is classified as, and a call with skip_sleep false sends its
\* request no sooner than the request interval after that time.
C15_FailedCallsCount ==
    [][\A t \in DOMAIN ctx :
         LET c == ctx[t].client
         IN  /\ Replied(t)
                => /\ last_request_clock'[c] = clock
                   /\ last_request_clock'[c] = completed_at'[c]
             /\ (Sends(t) /\ ~ctx[t].skip_sleep)
                => ctx'[t].posted - last_request_clock[c] >= RequestInterval(c)]_vars

C15_Witness ==
    \E t \in DOMAIN ctx :
        /\ ctx[t].pc = "done"
        /\ ctx[t].sent
        /\ ~ctx[t].skip_sleep
        /\ Kind(ctx[t].ret) = "RequestRejected"
        /\ last_request_clock[ctx[t].client] = clock
        /\ clock > MaxClock - 3

\* C16: a call sleeps only on a client one of whose requests has returned
\* before: while the last request clock is still the 0 of __init__, no call
\* sleeps, whatever the clock reads.
C16_FirstCallNeverWaits ==
    \A t \in DOMAIN ctx :
        ctx[t].pc = "sleep" => completed_at[ctx[t].client] >= 0

\* C17: a call that received a reply with ok status whose body has neither
\* an error marker nor the Access Denied marker returns the reply's body;
\* and when the client has a cache and the body has no meta element with
\* content "no-cache", the body is stored, the token "no-cache" elsewhere in
\* it notwithstanding.
C17_SuccessIsDefault ==
    \A t \in DOMAIN ctx :
        LET x == ctx[t]
        IN  (/\ x.pc = "done"
             /\ x.r # NoReply
             /\ x.r.ok
             /\ ~HasErrorMarker(x.r.body)
             /\ ~HasAccessDenied(x.r.body))
            => /\ x.ret = Returned(x.r.body)
               /\ (x.client.has_cache
                      /\ ~(Parses(x.r.body) /\ XPathMetaNoCache(x.r.body)))
                     => (KeyOf(x) \in DOMAIN cache
                           /\ cache[KeyOf(x)] = x.r.body)

\* C18: the cache, empty at first, changes only in the step in which a call
\* receives its reply and ends, and then only under that call's key and to
\* the value the call returns: every other entry stays, none is removed.
C18_StoreIntegrity ==
    [][cache' # cache
         => \E t \in DOMAIN ctx :
                LET k == KeyOf(ctx[t])
                IN  /\ Replied(t)
                    /\ ctx'[t].ret.exc = "none"
                    /\ DOMAIN cache' = DOMAIN cache \cup {k}
                    /\ cache'[k] = ctx'[t].ret.value
                    /\ \A j \in DOMAIN cache \ {k} : cache'[j] = cache[j]]_vars

C18_Witness ==
    \E t \in DOMAIN ctx :
        /\ ctx[t].pc = "done"
        /\ ctx[t].sent
        /\ ctx[t].ret.exc = "none"
        /\ KeyOf(ctx[t]) \in DOMAIN cache
        /\ cache[KeyOf(ctx[t])] = ctx[t].ret.value
        /\ \E j \in DOMAIN cache :
               j # KeyOf(ctx[t]) /\ cache[j] # cache[KeyOf(ctx[t])]

\* The order in which a call passes through _query.
PcOrder ==
    {<<"idle", "done">>, <<"idle", "sleep">>, <<"idle", "post">>,
     <<"sleep", "post">>, <<"post", "wait">>, <<"wait", "done">>,
     <<"done", "idle">>}

\* C19: a call only moves forward through _query, so it sleeps at most once
\* and sends at most one request; the sleep it asks for is positive and at
\* most the request interval, the last request clock never being ahead of
\* the clock; and the step in which the Transport returns or fails ends the
\* call in a returned value or a raised exception.
C19_BoundedWaitOnePass ==
    [][\A t \in DOMAIN ctx :
         LET x == ctx[t]
             y == ctx'[t]
         IN  /\ last_request_clock[y.client] <= clock
             /\ x.pc # y.pc => <<x.pc, y.pc>> \in PcOrder
             /\ (Begins(t) /\ y.pc = "sleep")
                => (y.wake - clock > 0
                      /\ y.wake - clock <= RequestInterval(y.client))
             /\ (y.sent /\ ~x.sent) => Sends(t)
             /\ Sends(t) => ~x.sent
             /\ x.pc = "wait"
                => (y.pc = "wait"
                      \/ (y.pc = "done" /\ y.ret.exc = "none"
                            /\ y.ret.value = y.r.body)
                      \/ (y.pc = "done" /\ y.ret.exc # "none"))]_vars

C19_Witness ==
    \E t \in DOMAIN ctx :
        /\ ctx[t].pc = "sleep"
        /\ completed_at[ctx[t].client] = clock
        /\ ctx[t].wake - clock = RequestInterval(ctx[t].client)

\* t's request fails in this step: the Transport raises instead of replying.
Failed(t) == ctx[t].pc = "wait" /\ ctx'[t].pc = "done" /\ ctx'[t].r = NoReply

\* C20: with one execution context, from the step that sends a request to
\* the step in which the Transport fails, the cache and the last request
\* clocks keep their values, and the call ends in the Transport's own
\* error, which is none of the errors the classification raises.
C20_TransportFailureNoEffect ==
    [][\A t \in DOMAIN ctx :
         /\ (Sends(t) \/ (ctx[t].pc = "wait" /\ ~Replied(t)))
            => (cache' = cache /\ last_request_clock' = last_request_clock)
         /\ Failed(t)
            => (ctx'[t].ret.exc = "TransportError"
                  /\ Kind(ctx'[t].ret) = "TransportError")]_vars

C20_Witness ==
    \E t \in DOMAIN ctx :
        /\ ctx[t].pc = "done"
        /\ ctx[t].sent
        /\ ctx[t].ret.exc = "TransportError"
        /\ clock > 0
        /\ completed_at[ctx[t].client] = -1
        /\ last_request_clock[ctx[t].client] = 0

====
